---- MODULE Spec2Model ----
(***************************************************************************)
(* LifeShot browser dashboards: the lifeguard page (alert polling, alert   *)
(* navigation, dismiss, logout), the admin page (event polling, detector   *)
(* runs, logout) and the login page (role routing), as state machines.     *)
(* One browser document is modelled per specification; a handler runs to   *)
(* its next await in one step, and every pending fetch is an entry of net  *)
(* that the environment answers in any order.                              *)
(***************************************************************************)
EXTENDS Integers, Sequences, FiniteSets, TLC

VARIABLES
  storage,            \* localStorage: ls_access_token, ls_id_token, ls_refresh_token, ls_expires_at
  now,                \* Date.now(), in ms
  page,               \* the document this tab shows: "lifeguard", "admin", "index", "login" (after a redirect)
  net,                \* pending fetches, in the order they were issued
  pc,                 \* the DOMContentLoaded handler's position: "load", "gate" (awaiting /auth/me), "ready", "gone"
  out,                \* what the last handler step did: requests sent, response consumed, sound, dialog, navigation
  activeAlertsList,   \* lifeguard: let activeAlertsList
  currentAlertIndex,  \* lifeguard: let currentAlertIndex
  alertPollTimer,     \* lifeguard: let alertPollTimer (TRUE: an interval is set)
  alertSoundPlayed,   \* lifeguard: window.alertSoundPlayed (undefined counts as FALSE)
  overlayHidden,      \* lifeguard: #emergency-overlay has class hidden
  dashboardHidden,    \* lifeguard: #lifeguard-dashboard has class hidden
  closeBtnEventId,    \* lifeguard: the eventId the close button's onclick dismisses (0 when unbound)
  eventsPollTimer,    \* admin: let eventsPollTimer (TRUE: an interval is set)
  eventsFetchInFlight,\* admin: let eventsFetchInFlight
  allEvents,          \* admin: let allEvents, the body of the last GET /events that parsed
  docHidden,          \* admin: document.hidden
  detectorInFlight,   \* admin: let detectorInFlight
  detectorAbort,      \* admin: let detectorAbort, as the run whose AbortController it holds (0: null)
  runs,               \* admin: each runDetectorTest call's position, by run number
  variant,            \* login: which script the page runs, "spa" (one document) or "pages"
  screen,             \* login: the screen showScreen left visible ("" on the pages variant)
  authError,          \* login: the text shown in #auth-error ("" while it is hidden)
  challenge           \* login: handleLogin holds a NEW_PASSWORD_REQUIRED answer (pages variant)

guardVars == <<activeAlertsList, currentAlertIndex, alertPollTimer, alertSoundPlayed,
               overlayHidden, dashboardHidden, closeBtnEventId>>
adminVars == <<eventsPollTimer, eventsFetchInFlight, allEvents, docHidden>>
detVars == <<detectorInFlight, detectorAbort, runs>>
loginVars == <<variant, screen, authError, challenge>>
vars == <<storage, now, page, net, pc, out, guardVars, adminVars, detVars, loginVars>>

-----------------------------------------------------------------------------
(* Bounds of the model *)

\* events in one GET /events response
MaxEvents == 2
\* fetches pending at the same time
MaxInFlight == 2
\* clock advances
MaxTicks == 2
\* runDetectorTest calls on one page load
MaxRuns == 3

-----------------------------------------------------------------------------
(* Strings as sequences of characters, and case conversion *)

LowerLetters == <<"a","b","c","d","e","f","g","h","i","j","k","l","m",
                  "n","o","p","q","r","s","t","u","v","w","x","y","z">>
UpperLetters == <<"A","B","C","D","E","F","G","H","I","J","K","L","M",
                  "N","O","P","Q","R","S","T","U","V","W","X","Y","Z">>

Letters == {LowerLetters[i] : i \in 1..26} \cup {UpperLetters[i] : i \in 1..26}

\* the case mappings of the letters, computed once
UpperOf == [c \in Letters |->
              IF \E i \in 1..26 : LowerLetters[i] = c
              THEN UpperLetters[CHOOSE i \in 1..26 : LowerLetters[i] = c] ELSE c]
LowerOf == [c \in Letters |->
              IF \E i \in 1..26 : UpperLetters[i] = c
              THEN LowerLetters[CHOOSE i \in 1..26 : UpperLetters[i] = c] ELSE c]

UpperChar(c) == IF c \in Letters THEN UpperOf[c] ELSE c
LowerChar(c) == IF c \in Letters THEN LowerOf[c] ELSE c

ToUpperCase(s) == [i \in 1..Len(s) |-> UpperChar(s[i])]
ToLowerCase(s) == [i \in 1..Len(s) |-> LowerChar(s[i])]

S_OPEN == <<"O","P","E","N">>
S_open == <<"o","p","e","n">>
S_CLOSED == <<"C","L","O","S","E","D">>

Statuses == {S_OPEN, S_open, S_CLOSED}

-----------------------------------------------------------------------------
(* Events and GET /events bodies *)

\* eventId is an opaque string; the model numbers the events (0: no event)
EventIds == 1..MaxEvents
Urls == {"", "w.jpg"}
\* created_at strings: two that Date parses and one it does not
CreatedAts == {"1970-01-01T00:00:01Z", "1970-01-01T00:00:02Z", "n/a"}

\* new Date(s).getTime(), NaN as -1
DateGetTime(s) ==
  CASE s = "1970-01-01T00:00:01Z" -> 1000
    [] s = "1970-01-01T00:00:02Z" -> 2000
    [] OTHER -> -1

isNaN(t) == t = -1

EventsOver(statuses, urls, dates) ==
  [eventId : EventIds, status : statuses, warningImageUrl : urls, created_at : dates]

DistinctIds(items) ==
  \A i, j \in 1..Len(items) : i # j => items[i].eventId # items[j].eventId

\* the arrays GET /events may answer with, over a set of events: no eventId twice
EventLists(events) ==
  UNION {{items \in [1..n -> events] : DistinctIds(items)} : n \in 0..MaxEvents}

\* a response body: a JSON array of events, a JSON object, or text that is not JSON
ArrayBodies(events) == {[kind |-> "array", items |-> items] : items \in EventLists(events)}
ObjectBody == [kind |-> "object", items |-> <<>>]
BadBody == [kind |-> "unparsable", items |-> <<>>]
NoBody == [kind |-> "none", items |-> <<>>]

normalizeStatus(s) == ToUpperCase(s)

parseDateSafe(s) == IF isNaN(DateGetTime(s)) THEN 0 ELSE DateGetTime(s)

\* the filter predicate of checkLiveAlerts
IsAlertMut(e) == normalizeStatus(e.status) = S_OPEN
IsAlert(e) == normalizeStatus(e.status) = S_OPEN /\ e.warningImageUrl # ""

RECURSIVE Filter(_)
Filter(items) ==
  IF items = <<>> THEN <<>>
  ELSE IF IsAlert(Head(items)) THEN <<Head(items)>> \o Filter(Tail(items))
       ELSE Filter(Tail(items))

\* the comparator (a, b) => parseDateSafe(b.created_at) - parseDateSafe(a.created_at)
CompareMut(a, b) == parseDateSafe(a.created_at) - parseDateSafe(b.created_at)
Compare(a, b) == parseDateSafe(b.created_at) - parseDateSafe(a.created_at)

\* Array.prototype.sort is stable: e goes behind every element it does not precede
RECURSIVE Insert(_, _)
Insert(e, sorted) ==
  IF sorted = <<>> THEN <<e>>
  ELSE IF Compare(Head(sorted), e) <= 0 THEN <<Head(sorted)>> \o Insert(e, Tail(sorted))
       ELSE <<e>> \o sorted

RECURSIVE Sort(_)
Sort(items) ==
  IF items = <<>> THEN <<>>
  ELSE Insert(items[Len(items)], Sort(SubSeq(items, 1, Len(items) - 1)))

\* (Array.isArray(data) ? data : []).filter(...).sort(...)
Classify(body) == Sort(Filter(IF body.kind = "array" THEN body.items ELSE <<>>))

-----------------------------------------------------------------------------
(* Token storage *)

getAccessToken(ls) == ls.ls_access_token
getIdToken(ls) == ls.ls_id_token

isTokenExpiredMut(ls, t) == ls.ls_expires_at # 0 /\ t > ls.ls_expires_at
isTokenExpired(ls, t) == ls.ls_expires_at # 0 /\ t > ls.ls_expires_at - 15000

\* lifeguard page: the id token first
getApiBearerToken(ls) == IF getIdToken(ls) # "" THEN getIdToken(ls) ELSE getAccessToken(ls)

\* the Authorization header's token, "" for no header
authHeaderMut(ls, t) == getApiBearerToken(ls)
authHeader(ls, t) ==
  IF getApiBearerToken(ls) = "" \/ isTokenExpired(ls, t) THEN "" ELSE getApiBearerToken(ls)

clearTokens(ls) ==
  [ls_access_token |-> "", ls_id_token |-> "", ls_refresh_token |-> "", ls_expires_at |-> 0]

-----------------------------------------------------------------------------
(* Roles, as /auth/me and /auth/login report them *)

R_admin == <<"a","d","m","i","n">>
R_Admin == <<"A","d","m","i","n">>
R_guard == <<"g","u","a","r","d">>
R_lifeguard == <<"l","i","f","e","g","u","a","r","d">>
R_Lifeguard == <<"L","i","f","e","g","u","a","r","d">>
R_manager == <<"m","a","n","a","g","e","r">>

\* <<>> is a missing role: String(undefined || "") is ""
Roles == {R_admin, R_Admin, R_guard, R_lifeguard, R_Lifeguard, R_manager, <<>>}

-----------------------------------------------------------------------------
(* Requests, responses and what a handler step did *)

Request(method, path, auth, eventId, cont) ==
  [method |-> method, path |-> path, auth |-> auth, eventId |-> eventId, cont |-> cont]

\* history: pending[i] is the oldest pending poll (the pending requests are kept
\* in the order they were issued)
OldestPoll(pending, i) ==
  \A k \in 1..(i - 1) : pending[k].cont # "checkLiveAlerts"

\* apiFetch(path, options): the request it hands to fetch
apiFetch(method, path, eventId, cont, ls, t) ==
  Request(method, path, authHeader(ls, t), eventId, cont)

\* res.ok: a status in 200..299 (0: no response)
ResOkMut(status) == status >= 200
ResOk(status) == status >= 200 /\ status <= 299

\* apiFetch after the response: it throws on these statuses, else returns res
ApiFetchThrowsMut(status) == status = 401
ApiFetchThrows(status) == status = 401 \/ status = 403

Quiet == [op |-> "", sent |-> <<>>, status |-> 0, body |-> NoBody, sound |-> FALSE,
          prevLen |-> 0, err |-> "", nav |-> "", dialog |-> "", role |-> <<>>,
          message |-> "", eventId |-> 0, accepted |-> FALSE,
          ret |-> FALSE, oldest |-> TRUE, event |-> <<>>, idp |-> <<>>, res |-> <<>>]

Remove(seq, i) == SubSeq(seq, 1, i - 1) \o SubSeq(seq, i + 1, Len(seq))

ApiStatuses == {200, 401, 403, 500}

\* /events answers over a set of events: 200 with any body, an error status with a
\* JSON object or junk
EventsAnswers(events) ==
  {[status |-> 200, body |-> b] : b \in ArrayBodies(events) \cup {ObjectBody, BadBody}}
  \cup {[status |-> s, body |-> b] : s \in {401, 403, 500}, b \in {ObjectBody, BadBody}}
\* status 0: fetch rejected (no response)
NetworkError == [status |-> 0, body |-> NoBody]

-----------------------------------------------------------------------------
(* Lifeguard page *)

\* what an earlier login left in localStorage when the page loads at now = 0
GuardStorages ==
  [ls_access_token : {"acc"}, ls_id_token : {"", "idt"},
   ls_refresh_token : {"ref"}, ls_expires_at : {10000, 20000}]

\* the events of the lifeguard page's polls: open or closed, each with its image
GuardEvents == EventsOver({S_OPEN, S_CLOSED}, {"w.jpg"}, {"1970-01-01T00:00:01Z"})
GuardAnswers == EventsAnswers(GuardEvents) \cup {NetworkError}

\* events in every shape: status in either case or closed, with and without the
\* warning image, created_at valid or not
PollEvents == EventsOver(Statuses, Urls, CreatedAts)
PollAnswers == EventsAnswers(PollEvents) \cup {NetworkError}

\* the variables of the other pages, for a specification that does not run them
IdleGuard ==
  /\ activeAlertsList = <<>>
  /\ currentAlertIndex = 0
  /\ alertPollTimer = FALSE
  /\ alertSoundPlayed = FALSE
  /\ overlayHidden = TRUE
  /\ dashboardHidden = TRUE
  /\ closeBtnEventId = 0

IdleAdmin ==
  /\ eventsPollTimer = FALSE
  /\ eventsFetchInFlight = FALSE
  /\ allEvents = [kind |-> "array", items |-> <<>>]
  /\ docHidden = FALSE

IdleDetector ==
  /\ detectorInFlight = FALSE
  /\ detectorAbort = 0
  /\ runs = [r \in 1..MaxRuns |-> "none"]

IdleLogin ==
  /\ variant = ""
  /\ screen = ""
  /\ authError = ""
  /\ challenge = FALSE

InitGuard ==
  /\ IdleAdmin /\ IdleDetector /\ IdleLogin
  /\ storage \in GuardStorages
  /\ now = 0
  /\ page = "lifeguard"
  /\ net = <<>>
  /\ pc = "load"
  /\ out = Quiet
  /\ activeAlertsList = <<>>
  /\ currentAlertIndex = 0
  /\ alertPollTimer = FALSE
  /\ alertSoundPlayed = FALSE
  /\ overlayHidden = TRUE
  /\ dashboardHidden = TRUE
  /\ closeBtnEventId = 0

\* checkLiveAlerts up to its await: the requests it sends
CheckLiveAlertsStartMut(hidden, pending, ls, t) ==
  IF hidden \/ pending # <<>> THEN <<>>
  ELSE <<apiFetch("GET", "/events", 0, "checkLiveAlerts", ls, t)>>
CheckLiveAlertsStartVisibleMut(hidden, pending, ls, t) ==
  <<apiFetch("GET", "/events", 0, "checkLiveAlerts", ls, t)>>
CheckLiveAlertsStart(hidden, pending, ls, t) ==
  IF hidden THEN <<>>
  ELSE <<apiFetch("GET", "/events", 0, "checkLiveAlerts", ls, t)>>

\* the redirect of the role gate and of logout: the document is replaced
Leave(op) ==
  /\ page' = "login"
  /\ pc' = "gone"
  /\ net' = <<>>
  /\ out' = [Quiet EXCEPT !.op = op, !.nav = "login.html"]

\* DOMContentLoaded handler up to authMe's fetch
GuardBootstrap ==
  /\ UNCHANGED <<adminVars, detVars, loginVars>>
  /\ page = "lifeguard" /\ pc = "load"
  /\ IF getIdToken(storage) = "" \/ isTokenExpired(storage, now)
     THEN /\ Leave("bootstrap")
          /\ UNCHANGED <<storage, now, guardVars>>
     ELSE /\ net' = Append(net, Request("GET", "/auth/me", getIdToken(storage), 0, "authMe"))
          /\ pc' = "gate"
          /\ out' = [Quiet EXCEPT !.op = "bootstrap", !.sent = <<net'[Len(net')]>>]
          /\ UNCHANGED <<storage, now, page, guardVars>>

GuardRoleOk(r) == r = R_guard \/ r = R_lifeguard \/ r = R_admin

\* the role gate, once /auth/me has answered (status 0: the fetch failed)
GuardAuthMeResponse(i, status, ok, role) ==
  /\ UNCHANGED <<adminVars, detVars, loginVars>>
  /\ page = "lifeguard" /\ pc = "gate"
  /\ i \in 1..Len(net) /\ net[i].cont = "authMe"
  /\ IF status = 200 /\ ok /\ GuardRoleOk(ToLowerCase(role))
     THEN LET sent == CheckLiveAlertsStart(FALSE, Remove(net, i), storage, now) IN
          /\ dashboardHidden' = FALSE
          /\ net' = Remove(net, i) \o sent
          /\ alertPollTimer' = TRUE
          /\ pc' = "ready"
          /\ out' = [Quiet EXCEPT !.op = "gate", !.status = status, !.sent = sent]
          /\ UNCHANGED <<storage, now, page, activeAlertsList, currentAlertIndex,
                         alertSoundPlayed, overlayHidden, closeBtnEventId>>
     ELSE /\ Leave("gate")
          /\ UNCHANGED <<storage, now, guardVars>>

\* setInterval(checkLiveAlerts, 5000) fires
GuardTimerTick ==
  /\ UNCHANGED <<adminVars, detVars, loginVars>>
  /\ page = "lifeguard" /\ alertPollTimer
  /\ LET sent == CheckLiveAlertsStart(dashboardHidden, net, storage, now) IN
     /\ Len(net) + Len(sent) <= MaxInFlight
     /\ net' = net \o sent
     /\ out' = [Quiet EXCEPT !.op = "tick", !.sent = sent]
  /\ UNCHANGED <<storage, now, page, pc, guardVars>>

\* renderCurrentAlert binds the close button to the alert at idx; reading an
\* index past the list throws before the binding, which then stays as it was
BoundEventId(list, idx, bound) ==
  IF idx + 1 \in 1..Len(list) THEN list[idx + 1].eventId ELSE bound

ClampIndexMut(idx, len) == idx
ClampIndex(idx, len) == IF idx >= len THEN 0 ELSE idx

PlaySoundMut(latch) == TRUE
PlaySound(latch) == ~latch

\* checkLiveAlerts after its await, for the answer ans to the pending GET net[i]
CheckLiveAlertsAnswered(i, ans, oldest) ==
  /\ UNCHANGED <<adminVars, detVars, loginVars>>
  /\ page \in {"lifeguard", "index"}
  /\ i \in 1..Len(net) /\ net[i].cont = "checkLiveAlerts"
  /\ net' = Remove(net, i)
  /\ IF ans.status = 0 \/ ApiFetchThrows(ans.status) \/ ans.body.kind = "unparsable"
     THEN /\ out' = [Quiet EXCEPT !.op = "events", !.status = ans.status, !.body = ans.body,
                       !.prevLen = Len(activeAlertsList), !.oldest = oldest,
                       !.err = IF ans.status = 0 THEN "NetworkError"
                               ELSE IF ApiFetchThrows(ans.status) THEN "Unauthorized"
                               ELSE "SyntaxError"]
          /\ UNCHANGED <<storage, now, page, pc, guardVars>>
     ELSE \E list \in {Classify(ans.body)} :
          LET idx == ClampIndex(currentAlertIndex, Len(list)) IN
          /\ activeAlertsList' = list
          /\ IF Len(list) > 0
             THEN /\ overlayHidden' = FALSE
                  /\ currentAlertIndex' = idx
                  /\ alertSoundPlayed' = TRUE
                  /\ closeBtnEventId' = BoundEventId(list, idx, closeBtnEventId)
                  /\ out' = [Quiet EXCEPT !.op = "events", !.status = ans.status,
                               !.body = ans.body, !.prevLen = Len(activeAlertsList),
                               !.oldest = oldest,
                               !.sound = PlaySound(alertSoundPlayed)]
             ELSE /\ alertSoundPlayed' = FALSE
                  /\ overlayHidden' = TRUE
                  /\ out' = [Quiet EXCEPT !.op = "events", !.status = ans.status,
                               !.body = ans.body, !.prevLen = Len(activeAlertsList),
                               !.oldest = oldest]
                  /\ UNCHANGED <<currentAlertIndex, closeBtnEventId>>
          /\ UNCHANGED <<storage, now, page, pc, alertPollTimer, dashboardHidden>>

\* checkLiveAlerts after its await, for the answer ans to the pending poll net[i]
CheckLiveAlertsResume(i, ans) == CheckLiveAlertsAnswered(i, ans, TRUE)

GuardEventsResponse ==
  \E i \in 1..Len(net), ans \in GuardAnswers : CheckLiveAlertsResume(i, ans)

NextIndex(idx, len) == IF idx + 1 >= len THEN 0 ELSE idx + 1
PrevIndexMut(idx, len) == IF idx - 1 < 0 THEN 0 ELSE idx - 1
PrevIndex(idx, len) == IF idx - 1 < 0 THEN len - 1 ELSE idx - 1

nextAlert ==
  /\ UNCHANGED <<adminVars, detVars, loginVars>>
  /\ page = "lifeguard"
  /\ IF Len(activeAlertsList) = 0
     THEN UNCHANGED <<currentAlertIndex, closeBtnEventId>>
     ELSE /\ currentAlertIndex' = NextIndex(currentAlertIndex, Len(activeAlertsList))
          /\ closeBtnEventId' = activeAlertsList[currentAlertIndex' + 1].eventId
  /\ out' = [Quiet EXCEPT !.op = "nextAlert", !.prevLen = Len(activeAlertsList)]
  /\ UNCHANGED <<storage, now, page, net, pc, activeAlertsList, alertPollTimer,
                 alertSoundPlayed, overlayHidden, dashboardHidden>>

prevAlert ==
  /\ UNCHANGED <<adminVars, detVars, loginVars>>
  /\ page = "lifeguard"
  /\ IF Len(activeAlertsList) = 0
     THEN UNCHANGED <<currentAlertIndex, closeBtnEventId>>
     ELSE /\ currentAlertIndex' = PrevIndex(currentAlertIndex, Len(activeAlertsList))
          /\ closeBtnEventId' = activeAlertsList[currentAlertIndex' + 1].eventId
  /\ out' = [Quiet EXCEPT !.op = "prevAlert", !.prevLen = Len(activeAlertsList)]
  /\ UNCHANGED <<storage, now, page, net, pc, activeAlertsList, alertPollTimer,
                 alertSoundPlayed, overlayHidden, dashboardHidden>>

\* the close button's onclick: dismissAlert(eventId) up to its await
dismissAlert ==
  /\ UNCHANGED <<adminVars, detVars, loginVars>>
  /\ page = "lifeguard" /\ closeBtnEventId # 0 /\ ~overlayHidden
  /\ Len(net) < MaxInFlight
  /\ net' = Append(net, apiFetch("PATCH", "/events", closeBtnEventId, "dismissAlert", storage, now))
  /\ out' = [Quiet EXCEPT !.op = "dismissAlert", !.sent = <<net'[Len(net')]>>]
  /\ UNCHANGED <<storage, now, page, pc, guardVars>>

\* dismissAlert after its await: re-poll unless apiFetch threw
DismissFollowUpMut(status) == TRUE
DismissFollowUp(status) == status # 0 /\ ~ApiFetchThrows(status)

DismissAlertResume(i, status) ==
  /\ UNCHANGED <<adminVars, detVars, loginVars>>
  /\ page = "lifeguard"
  /\ i \in 1..Len(net) /\ net[i].cont = "dismissAlert"
  /\ LET sent == IF DismissFollowUp(status)
                 THEN CheckLiveAlertsStart(dashboardHidden, Remove(net, i), storage, now)
                 ELSE <<>> IN
     /\ net' = Remove(net, i) \o sent
     /\ out' = [Quiet EXCEPT !.op = "patch", !.status = status, !.sent = sent,
                  !.err = IF status = 0 THEN "NetworkError"
                          ELSE IF ApiFetchThrows(status) THEN "Unauthorized" ELSE ""]
  /\ UNCHANGED <<storage, now, page, pc, guardVars>>

GuardPatchResponse ==
  \E i \in 1..Len(net), status \in ApiStatuses \cup {0} : DismissAlertResume(i, status)

\* logout() up to authLogout's fetch
GuardLogout ==
  /\ UNCHANGED <<adminVars, detVars, loginVars>>
  /\ page = "lifeguard"
  /\ Len(net) < MaxInFlight
  /\ alertPollTimer' = FALSE
  /\ net' = Append(net, Request("POST", "/auth/logout", "", 0, "authLogout"))
  /\ out' = [Quiet EXCEPT !.op = "logout", !.sent = <<net'[Len(net')]>>]
  /\ UNCHANGED <<storage, now, page, pc, activeAlertsList, currentAlertIndex,
                 alertSoundPlayed, overlayHidden, dashboardHidden, closeBtnEventId>>

\* authLogout: fetch(...).catch(() => {}) rejects for no outcome of the request
AuthLogoutRejectsMut(status) == status = 0
AuthLogoutRejects(status) == FALSE

\* a logout() that authLogout's rejection leaves unfinished
LogoutFailed(i, status) ==
  /\ net' = Remove(net, i)
  /\ out' = [Quiet EXCEPT !.op = "logoutFailed", !.status = status, !.err = "NetworkError"]
  /\ UNCHANGED <<storage, page, pc>>

\* logout() after authLogout, answered with status (0: no response)
GuardLogoutResume(i, status) ==
  /\ UNCHANGED <<adminVars, detVars, loginVars>>
  /\ page = "lifeguard"
  /\ i \in 1..Len(net) /\ net[i].cont = "authLogout"
  /\ IF AuthLogoutRejects(status)
     THEN LogoutFailed(i, status)
     ELSE /\ storage' = clearTokens(storage)
          /\ Leave("logoutDone")
  /\ UNCHANGED <<now, guardVars>>

AdvanceClock ==
  /\ page # "login"
  /\ now < MaxTicks * 5000
  /\ now' = now + 5000
  /\ out' = Quiet
  /\ UNCHANGED <<storage, page, net, pc, guardVars, adminVars, detVars, loginVars>>

NextGuard ==
  \/ GuardBootstrap
  \/ \E i \in 1..Len(net), status \in {0, 200, 401}, ok \in BOOLEAN, role \in Roles :
       GuardAuthMeResponse(i, status, ok, role)
  \/ GuardTimerTick
  \/ GuardEventsResponse
  \/ nextAlert
  \/ prevAlert
  \/ dismissAlert
  \/ GuardPatchResponse
  \/ GuardLogout
  \/ \E i \in 1..Len(net), status \in {0, 200, 500} : GuardLogoutResume(i, status)

SpecGuard == InitGuard /\ [][NextGuard]_vars

-----------------------------------------------------------------------------
(* One poll of a freshly loaded lifeguard page, over events of every shape *)

PollEventsResponse ==
  \E i \in 1..Len(net), ans \in PollAnswers : CheckLiveAlertsResume(i, ans)

NextPoll ==
  \/ GuardBootstrap
  \/ \E i \in 1..Len(net), status \in {0, 200, 401}, ok \in BOOLEAN, role \in Roles :
       GuardAuthMeResponse(i, status, ok, role)
  \/ PollEventsResponse
  \/ nextAlert
  \/ prevAlert

SpecPoll == InitGuard /\ [][NextPoll]_vars

-----------------------------------------------------------------------------
(* apiFetch of the lifeguard page, called under every stored session and clock *)

FetchStorages ==
  [ls_access_token : {"", "acc"}, ls_id_token : {"", "idt"},
   ls_refresh_token : {"", "ref"}, ls_expires_at : {0, 10000, 20000}]

InitFetch ==
  /\ IdleAdmin /\ IdleDetector /\ IdleLogin
  /\ storage \in FetchStorages
  /\ now = 0
  /\ page = "lifeguard"
  /\ net = <<>>
  /\ pc = "ready"
  /\ out = Quiet
  /\ activeAlertsList = <<>>
  /\ currentAlertIndex = 0
  /\ alertPollTimer = TRUE
  /\ alertSoundPlayed = FALSE
  /\ overlayHidden = TRUE
  /\ dashboardHidden = FALSE
  /\ closeBtnEventId = 0

\* apiFetch(path, options) up to its await
FetchCall(method, eventId) ==
  /\ UNCHANGED <<adminVars, detVars, loginVars>>
  /\ Len(net) < MaxInFlight
  /\ net' = Append(net, apiFetch(method, "/events", eventId, "caller", storage, now))
  /\ out' = [Quiet EXCEPT !.op = "apiFetch", !.sent = <<net'[Len(net')]>>]
  /\ UNCHANGED <<storage, now, page, pc, guardVars>>

\* apiFetch after its await: throw Unauthorized, or return res to the caller
FetchAnswer(i, status) ==
  /\ UNCHANGED <<adminVars, detVars, loginVars>>
  /\ i \in 1..Len(net) /\ net[i].cont = "caller"
  /\ net' = Remove(net, i)
  /\ out' = [Quiet EXCEPT !.op = "apiFetchDone", !.status = status,
               !.err = IF status = 0 THEN "NetworkError"
                       ELSE IF ApiFetchThrows(status) THEN "Unauthorized" ELSE ""]
  /\ UNCHANGED <<storage, now, page, pc, guardVars>>

NextFetch ==
  \/ FetchCall("GET", 0)
  \/ \E id \in EventIds : FetchCall("PATCH", id)
  \/ \E i \in 1..Len(net), status \in ApiStatuses \cup {0} : FetchAnswer(i, status)
  \/ AdvanceClock

SpecFetch == InitFetch /\ [][NextFetch]_vars

-----------------------------------------------------------------------------
(* Claims about the lifeguard page *)

Range(seq) == {seq[i] : i \in 1..Len(seq)}

PendingPolls == {i \in 1..Len(net) : net[i].cont = "checkLiveAlerts"}

\* C1: after a poll that completed without error, activeAlertsList holds exactly the
\* events of that poll's response whose status reads OPEN in any case and whose
\* warningImageUrl is non-empty
C1_AlertsAreExactlyTheOpenEventsWithImage ==
  (out.op = "events" /\ out.err = "") =>
    Range(activeAlertsList) =
      {e \in Range(out.body.items) :
         e.status \in {S_OPEN, S_open} /\ e.warningImageUrl # ""}

\* a completed poll kept a lower-case open event and dropped the other event
C1_Witness ==
  /\ out.op = "events" /\ out.err = ""
  /\ Len(out.body.items) = 2
  /\ Len(activeAlertsList) = 1
  /\ activeAlertsList[1].status = S_open

\* C2: at most one GET /events of checkLiveAlerts is in flight at any time
C2_SingleFlight == Cardinality(PendingPolls) <= 1

\* C3: a completed poll plays the alert sound if and only if its alert list is
\* non-empty and the list of the previously completed poll was empty (or there was none)
C3_SoundOnlyOnTransitionIntoAlert ==
  (out.op = "events" /\ out.err = "") =>
    (out.sound <=> (Len(activeAlertsList) > 0 /\ out.prevLen = 0))

\* a poll found alerts right after a poll that had found alerts, and stayed silent
C3_Witness ==
  /\ out.op = "events" /\ out.err = ""
  /\ Len(activeAlertsList) > 0 /\ out.prevLen > 0
  /\ ~out.sound

\* C4: whenever activeAlertsList is non-empty, 0 <= currentAlertIndex < its length
C4_IndexInRange ==
  Len(activeAlertsList) > 0 =>
    (0 <= currentAlertIndex /\ currentAlertIndex < Len(activeAlertsList))

\* a poll shrank a list of two alerts to one
C4_Witness ==
  /\ out.op = "events" /\ out.err = ""
  /\ out.prevLen = 2 /\ Len(activeAlertsList) = 1
  /\ currentAlertIndex = 0

\* C7 as stated: every dismissAlert call is followed, after the PATCH response, by
\* exactly one GET /events
C7_EveryDismissRepolls ==
  out.op = "patch" =>
    (Len(out.sent) = 1 /\ out.sent[1].method = "GET" /\ out.sent[1].path = "/events")

\* C7 amended: dismissAlert(eventId) issues exactly one PATCH /events for that eventId;
\* when the PATCH is answered with a status other than 401 and 403 it then issues
\* exactly one GET /events, and when the PATCH fails (no response, 401, 403) it issues
\* none; in either step it leaves activeAlertsList and currentAlertIndex unchanged
C7_DismissPatchesThenRepollsUnlessFailed ==
  [][ /\ out'.op = "dismissAlert" =>
           /\ Len(out'.sent) = 1
           /\ out'.sent[1].method = "PATCH" /\ out'.sent[1].path = "/events"
           /\ out'.sent[1].eventId = closeBtnEventId
           /\ activeAlertsList' = activeAlertsList
           /\ currentAlertIndex' = currentAlertIndex
      /\ out'.op = "patch" =>
           /\ IF out'.status \in {0, 401, 403}
              THEN out'.sent = <<>>
              ELSE /\ Len(out'.sent) = 1
                   /\ out'.sent[1].method = "GET" /\ out'.sent[1].path = "/events"
           /\ activeAlertsList' = activeAlertsList
           /\ currentAlertIndex' = currentAlertIndex ]_vars

\* a PATCH that the server refused was followed by no GET
C7_Witness == out.op = "patch" /\ out.status = 403 /\ out.sent = <<>>

\* C9: apiFetch always issues the request, with an Authorization header if and only
\* if a bearer token is stored and isTokenExpired() is false at the call
C9_BearerHeaderIffLiveToken ==
  out.op = "apiFetch" =>
    /\ Len(out.sent) = 1
    /\ out.sent[1] = net[Len(net)]
    /\ LET stored == storage.ls_id_token # "" \/ storage.ls_access_token # ""
       IN  (out.sent[1].auth # "") <=> (stored /\ ~isTokenExpired(storage, now))
    /\ out.sent[1].auth \in {"", storage.ls_id_token, storage.ls_access_token}

\* a request went out without the header because the stored token had expired
C9_Witness ==
  /\ out.op = "apiFetch"
  /\ storage.ls_id_token # "" /\ isTokenExpired(storage, now)
  /\ out.sent[1].auth = ""
  /\ now > 0

\* C10: a 401 or 403 answer to a request made through apiFetch reaches the caller as
\* an Unauthorized error, never as a response, and changes neither the stored tokens
\* nor the poll timer nor the page
C10_UnauthorizedIsThrownOnly ==
  [][ (out'.op \in {"events", "patch"} /\ out'.status \in {401, 403}) =>
        /\ out'.err = "Unauthorized"
        /\ out'.sent = <<>>
        /\ out'.nav = ""
        /\ storage' = storage
        /\ alertPollTimer' = alertPollTimer
        /\ page' = page
        /\ activeAlertsList' = activeAlertsList
        /\ alertSoundPlayed' = alertSoundPlayed
        /\ overlayHidden' = overlayHidden ]_vars

\* a poll answered 403 while alerts were shown and the timer was running
C10_Witness ==
  /\ out.op = "events" /\ out.status = 403 /\ out.err = "Unauthorized"
  /\ Len(activeAlertsList) > 0 /\ alertPollTimer
  /\ storage.ls_id_token # ""

-----------------------------------------------------------------------------
(* Admin page: event polling and logout *)

\* admin page: the access token first
getApiBearerTokenAdmin(ls) ==
  IF getAccessToken(ls) # "" THEN getAccessToken(ls) ELSE getIdToken(ls)

authHeaderAdmin(ls, t) ==
  IF getApiBearerTokenAdmin(ls) = "" \/ isTokenExpired(ls, t) THEN ""
  ELSE getApiBearerTokenAdmin(ls)

apiFetchAdmin(method, path, eventId, cont, ls, t) ==
  Request(method, path, authHeaderAdmin(ls, t), eventId, cont)

EmptyArray == [kind |-> "array", items |-> <<>>]

InitAdmin ==
  /\ IdleGuard /\ IdleDetector /\ IdleLogin
  /\ storage \in GuardStorages
  /\ now = 0
  /\ page = "admin"
  /\ net = <<>>
  /\ pc = "load"
  /\ out = Quiet
  /\ eventsPollTimer = FALSE
  /\ eventsFetchInFlight = FALSE
  /\ allEvents = EmptyArray
  /\ docHidden = FALSE

\* DOMContentLoaded handler up to authMe's fetch
AdminBootstrap ==
  /\ UNCHANGED <<guardVars, detVars, loginVars>>
  /\ page = "admin" /\ pc = "load"
  /\ IF getIdToken(storage) = "" \/ isTokenExpired(storage, now)
     THEN /\ Leave("bootstrap")
          /\ UNCHANGED <<storage, now, adminVars>>
     ELSE /\ net' = Append(net, Request("GET", "/auth/me", getIdToken(storage), 0, "authMe"))
          /\ pc' = "gate"
          /\ out' = [Quiet EXCEPT !.op = "bootstrap", !.sent = <<net'[Len(net')]>>]
          /\ UNCHANGED <<storage, now, page, adminVars>>

\* fetchEvents up to its await: the requests it sends
FetchEventsStartNoneMut(inFlight, ls, t) == <<>>
FetchEventsStartAlwaysMut(inFlight, ls, t) ==
  <<apiFetchAdmin("GET", "/events", 0, "fetchEvents", ls, t)>>
FetchEventsStart(inFlight, ls, t) ==
  IF inFlight THEN <<>>
  ELSE <<apiFetchAdmin("GET", "/events", 0, "fetchEvents", ls, t)>>

\* r === "admin", r the lower-cased role of /auth/me
AdminRoleOkMut(r) == r # <<>>
AdminRoleOk(r) == r = R_admin

\* the role gate, then showScreen and startEventsPolling(20000); ok is me.ok of the
\* JSON of a 2xx answer (status 0: the fetch failed)
AdminAuthMeResponse(i, status, ok, role) ==
  /\ UNCHANGED <<guardVars, detVars, loginVars>>
  /\ page = "admin" /\ pc = "gate"
  /\ i \in 1..Len(net) /\ net[i].cont = "authMe"
  /\ IF status = 200 /\ ok /\ AdminRoleOk(ToLowerCase(role))
     THEN LET sent == FetchEventsStart(eventsFetchInFlight, storage, now) IN
          /\ net' = Remove(net, i) \o sent
          /\ eventsFetchInFlight' = TRUE
          /\ eventsPollTimer' = TRUE
          /\ pc' = "ready"
          /\ out' = [Quiet EXCEPT !.op = "gate", !.status = status, !.sent = sent,
                       !.role = role, !.ret = ok]
          /\ UNCHANGED <<storage, now, page, allEvents, docHidden>>
     ELSE /\ page' = "login"
          /\ pc' = "gone"
          /\ net' = <<>>
          /\ out' = [Quiet EXCEPT !.op = "gate", !.nav = "login.html", !.status = status,
                       !.role = role, !.ret = ok]
          /\ UNCHANGED <<storage, now, adminVars>>

\* the interval callback of startEventsPolling
AdminTimerTick ==
  /\ UNCHANGED <<guardVars, detVars, loginVars>>
  /\ page = "admin" /\ eventsPollTimer
  /\ LET sent == IF docHidden THEN <<>>
                 ELSE FetchEventsStart(eventsFetchInFlight, storage, now) IN
     /\ Len(net) + Len(sent) <= MaxInFlight
     /\ net' = net \o sent
     /\ eventsFetchInFlight' = (eventsFetchInFlight \/ ~docHidden)
     /\ out' = [Quiet EXCEPT !.op = "tick", !.sent = sent]
  /\ UNCHANGED <<storage, now, page, pc, eventsPollTimer, allEvents, docHidden>>

\* deleteEvent resumes when the fetchEvents it awaited has ended, and reports
DeletedDialog(cont) == IF cont = "deleteRefresh" THEN "Event deleted" ELSE ""

\* fetchEvents: its finally block resets the flag, whether or not the try failed
InFlightAfterFetchMut(failed) == failed
InFlightAfterFetch(failed) == FALSE

\* fetchEvents after its await, for the answer ans to the pending GET net[i]
FetchEventsResume(i, ans) ==
  /\ UNCHANGED <<guardVars, detVars, loginVars>>
  /\ page = "admin"
  /\ i \in 1..Len(net) /\ net[i].cont \in {"fetchEvents", "deleteRefresh"}
  /\ net' = Remove(net, i)
  /\ eventsFetchInFlight' =
       InFlightAfterFetch(ans.status = 0 \/ ApiFetchThrows(ans.status)
                          \/ ans.body.kind = "unparsable")
  /\ IF ans.status = 0 \/ ApiFetchThrows(ans.status) \/ ans.body.kind = "unparsable"
     THEN /\ out' = [Quiet EXCEPT !.op = "events", !.status = ans.status, !.body = ans.body,
                       !.dialog = DeletedDialog(net[i].cont),
                       !.err = IF ans.status = 0 THEN "NetworkError"
                               ELSE IF ApiFetchThrows(ans.status) THEN "Unauthorized"
                               ELSE "SyntaxError"]
          /\ UNCHANGED allEvents
     ELSE /\ allEvents' = ans.body
          /\ out' = [Quiet EXCEPT !.op = "events", !.status = ans.status, !.body = ans.body,
                       !.dialog = DeletedDialog(net[i].cont)]
  /\ UNCHANGED <<storage, now, page, pc, eventsPollTimer, docHidden>>

\* the answers to the admin page's polls: at most one event in the array
AdminAnswers == {ans \in GuardAnswers : Len(ans.body.items) <= 1}

AdminEventsResponse ==
  \E i \in 1..Len(net), ans \in AdminAnswers : FetchEventsResume(i, ans)

\* deleteEvent goes on to its request: an eventId was given and confirm() accepted
DeleteConfirmedMut(eventId, ok) == eventId # 0
DeleteConfirmed(eventId, ok) == eventId # 0 /\ ok

\* deleteEvent(eventId) up to its await; ok is the user's answer to confirm()
deleteEvent(eventId, ok) ==
  /\ UNCHANGED <<guardVars, detVars, loginVars>>
  /\ page = "admin" /\ pc = "ready"
  /\ LET sent == IF DeleteConfirmed(eventId, ok)
                 THEN <<apiFetchAdmin("DELETE", "/events", eventId, "deleteEvent", storage, now)>>
                 ELSE <<>> IN
     /\ Len(net) + Len(sent) <= MaxInFlight
     /\ net' = net \o sent
     /\ out' = [Quiet EXCEPT !.op = "deleteEvent", !.eventId = eventId,
                  !.dialog = IF eventId # 0 THEN "confirm" ELSE "",
                  !.accepted = (eventId # 0 /\ ok), !.sent = sent]
  /\ UNCHANGED <<storage, now, page, pc, adminVars>>

\* deleteEvent after its DELETE is answered: on success it awaits fetchEvents()
DeleteEventResume(i, status) ==
  /\ UNCHANGED <<guardVars, detVars, loginVars>>
  /\ page = "admin"
  /\ i \in 1..Len(net) /\ net[i].cont = "deleteEvent"
  /\ IF status = 0 \/ ApiFetchThrows(status) \/ ~ResOk(status)
     THEN /\ net' = Remove(net, i)
          /\ out' = [Quiet EXCEPT !.op = "deleteDone", !.status = status,
                       !.eventId = net[i].eventId,
                       !.err = IF status = 0 THEN "NetworkError"
                               ELSE IF ApiFetchThrows(status) THEN "Unauthorized"
                               ELSE "DELETE failed",
                       !.dialog = "Delete failed"]
          /\ UNCHANGED eventsFetchInFlight
     ELSE LET sent == IF eventsFetchInFlight THEN <<>>
                      ELSE <<apiFetchAdmin("GET", "/events", 0, "deleteRefresh", storage, now)>> IN
          /\ net' = Remove(net, i) \o sent
          /\ eventsFetchInFlight' = TRUE
          /\ out' = [Quiet EXCEPT !.op = "deleteDone", !.status = status,
                       !.eventId = net[i].eventId, !.sent = sent,
                       !.dialog = IF sent = <<>> THEN "Event deleted" ELSE ""]
  /\ UNCHANGED <<storage, now, page, pc, eventsPollTimer, allEvents, docHidden>>

\* logout() up to authLogout's fetch: the admin page leaves its poll timer running
AdminLogout ==
  /\ UNCHANGED <<guardVars, detVars, loginVars>>
  /\ page = "admin"
  /\ Len(net) < MaxInFlight
  /\ net' = Append(net, Request("POST", "/auth/logout", "", 0, "authLogout"))
  /\ out' = [Quiet EXCEPT !.op = "logout", !.sent = <<net'[Len(net')]>>]
  /\ UNCHANGED <<storage, now, page, pc, adminVars>>

\* logout() after authLogout, answered with status (0: no response)
AdminLogoutResume(i, status) ==
  /\ UNCHANGED <<guardVars, detVars, loginVars>>
  /\ page = "admin"
  /\ i \in 1..Len(net) /\ net[i].cont = "authLogout"
  /\ IF AuthLogoutRejects(status)
     THEN LogoutFailed(i, status)
     ELSE /\ storage' = clearTokens(storage)
          /\ Leave("logoutDone")
  /\ UNCHANGED <<now, adminVars>>

\* the tab is hidden or shown
VisibilityChange ==
  /\ UNCHANGED <<guardVars, detVars, loginVars>>
  /\ page = "admin"
  /\ docHidden' = ~docHidden
  /\ out' = Quiet
  /\ UNCHANGED <<storage, now, page, net, pc, eventsPollTimer, eventsFetchInFlight, allEvents>>

NextAdmin ==
  \/ AdminBootstrap
  \/ \E i \in 1..Len(net), status \in {0, 200, 401}, ok \in BOOLEAN, role \in Roles :
       AdminAuthMeResponse(i, status, ok, role)
  \/ AdminTimerTick
  \/ AdminEventsResponse
  \/ \E eventId \in {0} \cup EventIds, ok \in BOOLEAN : deleteEvent(eventId, ok)
  \/ \E i \in 1..Len(net), status \in {0, 200, 403, 500} : DeleteEventResume(i, status)
  \/ AdminLogout
  \/ \E i \in 1..Len(net), status \in {0, 200, 500} : AdminLogoutResume(i, status)
  \/ VisibilityChange

SpecAdmin == InitAdmin /\ [][NextAdmin]_vars

LogoutStarted == \E i \in 1..Len(net) : net[i].cont = "authLogout"

\* C5: once logout() has started, no timer tick issues GET /events (the poll timer
\* is cancelled before the stored credentials are removed)
C5_NoPollAfterLogoutStarted ==
  ~(LogoutStarted /\ out.op = "tick" /\ out.sent # <<>>)

-----------------------------------------------------------------------------
(* Admin page: detector runs *)

RunIds == 1..MaxRuns

\* a run between its start and its finally block
ActiveRun(st) == st \in {"fetch", "aborted", "sleep", "sleepAlert"}
ActiveRuns == {r \in RunIds : ActiveRun(runs[r])}

DetectorRequest(testName) ==
  [method |-> "POST", path |-> "DETECTOR_LAMBDA_URL", auth |-> "", eventId |-> 0,
   cont |-> "runDetectorTest",
   payload |-> IF testName = "Test2"
               THEN [prefix |-> "LifeShot/DrowningSet/Test2/", max_frames |-> 12,
                     single_prefix_only |-> TRUE]
               ELSE [prefix |-> "LifeShot/DrowningSet/Test1/", max_frames |-> 8,
                     single_prefix_only |-> TRUE]]

\* the admin page once its role gate has passed and its first poll has been answered
InitDetector ==
  /\ IdleGuard /\ IdleLogin
  /\ storage \in {ls \in GuardStorages : ls.ls_id_token # "" /\ ~isTokenExpired(ls, 0)}
  /\ now = 0
  /\ page = "admin"
  /\ net = <<>>
  /\ pc = "ready"
  /\ out = Quiet
  /\ eventsPollTimer = TRUE
  /\ eventsFetchInFlight = FALSE
  /\ allEvents = EmptyArray
  /\ docHidden = FALSE
  /\ detectorInFlight = FALSE
  /\ detectorAbort = 0
  /\ runs = [r \in RunIds |-> "none"]

\* runDetectorTest(testName) up to its fetch; r numbers the call
runDetectorTest(r, testName) ==
  /\ UNCHANGED <<storage, now, page, net, pc, guardVars, adminVars, loginVars>>
  /\ page = "admin"
  /\ runs[r] = "none" /\ \A q \in 1..(r - 1) : runs[q] # "none"
  /\ IF detectorInFlight
     THEN /\ runs' = [runs EXCEPT ![r] = "ignored"]
          /\ out' = [Quiet EXCEPT !.op = "runDetectorTest", !.err = "ignored"]
          /\ UNCHANGED <<detectorInFlight, detectorAbort>>
     ELSE /\ detectorInFlight' = TRUE
          /\ detectorAbort' = r
          /\ runs' = [runs EXCEPT ![r] = "fetch"]
          /\ out' = [Quiet EXCEPT !.op = "runDetectorTest",
                       !.sent = <<DetectorRequest(testName)>>]

\* the detector answers run r: 2xx, another status, or no response
DetectorAnswer(r, status) ==
  /\ UNCHANGED <<storage, now, page, net, pc, guardVars, adminVars, loginVars>>
  /\ page = "admin"
  /\ runs[r] = "fetch"
  /\ runs' = [runs EXCEPT ![r] = IF status = 0 THEN "sleepAlert" ELSE "sleep"]
  /\ out' = [Quiet EXCEPT !.op = "detectorAnswer", !.status = status,
               !.err = IF status = 0 THEN "NetworkError" ELSE ""]
  /\ UNCHANGED <<detectorInFlight, detectorAbort>>

\* the finally block of runDetectorTest
DetectorFinally(r) ==
  /\ detectorInFlight' = FALSE
  /\ detectorAbort' = 0
  /\ runs' = [runs EXCEPT ![r] = "done"]

\* run r wakes from sleep(900) or sleep(1400), alerts after a request error, and ends
DetectorSleepDone(r) ==
  /\ UNCHANGED <<storage, now, page, net, pc, guardVars, adminVars, loginVars>>
  /\ page = "admin"
  /\ runs[r] \in {"sleep", "sleepAlert"}
  /\ DetectorFinally(r)
  /\ out' = [Quiet EXCEPT !.op = "detectorEnd",
               !.dialog = IF runs[r] = "sleepAlert"
                          THEN "Error triggering detector. Check console." ELSE ""]

\* run r's fetch rejects with AbortError: the catch stays silent, then finally
DetectorAborted(r) ==
  /\ UNCHANGED <<storage, now, page, net, pc, guardVars, adminVars, loginVars>>
  /\ page = "admin"
  /\ runs[r] = "aborted"
  /\ DetectorFinally(r)
  /\ out' = [Quiet EXCEPT !.op = "detectorEnd", !.err = "AbortError"]

\* window.LS_stopDetector()
LS_stopDetector ==
  /\ UNCHANGED <<storage, now, page, net, pc, guardVars, adminVars, loginVars>>
  /\ page = "admin"
  /\ runs' = IF detectorAbort # 0 /\ runs[detectorAbort] = "fetch"
             THEN [runs EXCEPT ![detectorAbort] = "aborted"]
             ELSE runs
  /\ detectorAbort' = 0
  /\ detectorInFlight' = FALSE
  /\ out' = [Quiet EXCEPT !.op = "LS_stopDetector"]

NextDetector ==
  \/ \E r \in RunIds, testName \in {"Test1", "Test2"} : runDetectorTest(r, testName)
  \/ \E r \in RunIds, status \in {0, 200, 500} : DetectorAnswer(r, status)
  \/ \E r \in RunIds : DetectorSleepDone(r)
  \/ \E r \in RunIds : DetectorAborted(r)
  \/ LS_stopDetector

SpecDetector == InitDetector /\ [][NextDetector]_vars

\* C8: at most one detector run is between its start and its finally block, so a
\* runDetectorTest call made while a run is active issues no POST
C8_AtMostOneDetectorRun == Cardinality(ActiveRuns) <= 1

-----------------------------------------------------------------------------
(* Login: the single-page client ("spa") and the login page ("pages") *)

ERR_EMPTY == "Please enter username/email and password."
ERR_NO_ROLE == "No role found. Add user to Admins/Lifeguards group in Cognito."
ERR_CANCELLED == "Password change cancelled."

NoTokens == [ls_access_token |-> "", ls_id_token |-> "", ls_refresh_token |-> "",
             ls_expires_at |-> 0]

\* the JSON of a successful login: tokens, a lifetime in seconds (0: none), a role
LoginData ==
  [role : Roles, accessToken : {"acc"}, idToken : {"idt"}, refreshToken : {"ref"},
   expiresIn : {0, 3600}]

\* a body that is not JSON parses to {}
EmptyData == [role |-> <<>>, accessToken |-> "", idToken |-> "", refreshToken |-> "",
              expiresIn |-> 0]

\* answers to /auth/login and /auth/complete-password; status 0: no response
LoginAnswers ==
  {[status |-> 200, challenge |-> FALSE, message |-> "", data |-> d] :
     d \in LoginData \cup {EmptyData}}
  \cup {[status |-> 409, challenge |-> TRUE, message |-> "", data |-> EmptyData]}
  \cup {[status |-> st, challenge |-> FALSE, message |-> m, data |-> EmptyData] :
          st \in {401, 409, 500}, m \in {"", "Invalid credentials"}}
  \cup {[status |-> 0, challenge |-> FALSE, message |-> "", data |-> EmptyData]}

saveTokensFromLoginResponse(data, t) ==
  [ls_access_token |-> data.accessToken, ls_id_token |-> data.idToken,
   ls_refresh_token |-> data.refreshToken,
   ls_expires_at |-> IF data.expiresIn # 0 THEN t + data.expiresIn * 1000 ELSE 0]

\* the destination routeAfterLogin picks for a role
RouteTargetMut(role) ==
  IF ToLowerCase(role) = R_admin THEN "admin" ELSE "lifeguard"
RouteTarget(role) ==
  IF ToLowerCase(role) = R_admin THEN "admin"
  ELSE IF ToLowerCase(role) \in {R_guard, R_lifeguard} THEN "lifeguard"
  ELSE "none"

\* the message of the Error that authLogin / authCompletePassword throws
LoginFailedMessageMut(prefix, ans) ==
  IF ans.status = 0 THEN "Failed to fetch" ELSE prefix
LoginFailedMessage(prefix, ans) ==
  IF ans.status = 0 THEN "Failed to fetch"
  ELSE IF ans.message # "" THEN ans.message
  ELSE IF ans.status = 401 THEN prefix \o " (401)"
  ELSE IF ans.status = 409 THEN prefix \o " (409)"
  ELSE prefix \o " (500)"

InitLogin ==
  /\ IdleGuard /\ IdleAdmin /\ IdleDetector
  /\ variant \in {"spa", "pages"}
  /\ storage \in GuardStorages \cup {NoTokens}
  /\ now = 0
  /\ page = "index"
  /\ net = <<>>
  /\ pc = "load"
  /\ out = Quiet
  /\ screen = "login-screen"
  /\ authError = ""
  /\ challenge = FALSE

\* routeAfterLogin(role) as the last call of the handler step op, with the tokens
\* ls in localStorage and the requests rest still pending
routeAfterLogin(op, role, status, ls, rest) ==
  /\ UNCHANGED <<now, pc, activeAlertsList, currentAlertIndex, alertSoundPlayed,
                 overlayHidden, closeBtnEventId, adminVars, detVars, variant, challenge>>
  /\ storage' = ls
  /\ IF variant = "pages"
     THEN IF RouteTarget(role) = "none"
          THEN /\ authError' = ERR_NO_ROLE
               /\ net' = rest
               /\ out' = [Quiet EXCEPT !.op = op, !.status = status, !.role = role]
               /\ UNCHANGED <<page, screen, alertPollTimer, dashboardHidden>>
          ELSE /\ page' = "gone"
               /\ net' = <<>>
               /\ out' = [Quiet EXCEPT !.op = op, !.status = status, !.role = role,
                            !.nav = IF RouteTarget(role) = "admin" THEN "admin.html"
                                    ELSE "lifeguard.html"]
               /\ UNCHANGED <<screen, authError, alertPollTimer, dashboardHidden>>
     ELSE /\ page' = page
          /\ IF RouteTarget(role) = "admin"
             THEN /\ screen' = "manager-dashboard"
                  /\ dashboardHidden' = TRUE
                  /\ out' = [Quiet EXCEPT !.op = op, !.status = status, !.role = role,
                               !.sent = <<apiFetch("GET", "/events", 0, "fetchEvents", ls, now)>>]
                  /\ UNCHANGED <<authError, alertPollTimer>>
             ELSE IF RouteTarget(role) = "lifeguard"
             THEN /\ screen' = "lifeguard-dashboard"
                  /\ dashboardHidden' = FALSE
                  /\ alertPollTimer' = TRUE
                  /\ out' = [Quiet EXCEPT !.op = op, !.status = status, !.role = role,
                               !.sent = <<apiFetch("GET", "/events", 0, "checkLiveAlerts", ls, now)>>]
                  /\ UNCHANGED authError
             ELSE /\ screen' = "login-screen"
                  /\ dashboardHidden' = TRUE
                  /\ authError' = ERR_NO_ROLE
                  /\ out' = [Quiet EXCEPT !.op = op, !.status = status, !.role = role]
                  /\ UNCHANGED alertPollTimer
          /\ net' = rest \o out'.sent

\* a handler step that ends in showError(msg) on the login screen
showError(op, msg, ans, rest) ==
  /\ UNCHANGED <<storage, now, page, pc, screen, guardVars, adminVars, detVars,
                 variant, challenge>>
  /\ authError' = msg
  /\ net' = rest
  /\ out' = [Quiet EXCEPT !.op = op, !.err = msg, !.status = ans.status,
               !.message = ans.message]

\* the single-page client's DOMContentLoaded handler up to authMe's fetch
LoginBootstrap ==
  /\ page = "index" /\ pc = "load"
  /\ UNCHANGED <<storage, now, page, authError, activeAlertsList, currentAlertIndex,
                 alertPollTimer, alertSoundPlayed, overlayHidden, closeBtnEventId,
                 adminVars, detVars, variant, challenge>>
  /\ IF variant = "pages"
     THEN /\ pc' = "ready"
          /\ out' = [Quiet EXCEPT !.op = "bootstrap"]
          /\ UNCHANGED <<net, screen, dashboardHidden>>
     ELSE IF getIdToken(storage) = "" \/ isTokenExpired(storage, now)
     THEN /\ pc' = "ready"
          /\ screen' = "login-screen"
          /\ dashboardHidden' = TRUE
          /\ out' = [Quiet EXCEPT !.op = "bootstrap"]
          /\ UNCHANGED net
     ELSE /\ pc' = "gate"
          /\ net' = Append(net, Request("GET", "/auth/me", getIdToken(storage), 0, "authMe"))
          /\ out' = [Quiet EXCEPT !.op = "bootstrap", !.sent = <<net'[Len(net')]>>]
          /\ UNCHANGED <<screen, dashboardHidden>>

\* the auto-login of the single-page client once /auth/me is answered
LoginAuthMeResponse(i, status, ok, role) ==
  /\ page = "index" /\ pc = "gate"
  /\ i \in 1..Len(net) /\ net[i].cont = "authMe"
  /\ IF status = 200 /\ ok
     THEN routeAfterLogin("routeAfterLogin", role, status, storage, Remove(net, i))
     ELSE /\ screen' = "login-screen"
          /\ dashboardHidden' = TRUE
          /\ net' = Remove(net, i)
          /\ out' = [Quiet EXCEPT !.op = "gate", !.status = status]
          /\ UNCHANGED <<storage, now, page, pc, authError, activeAlertsList,
                         currentAlertIndex, alertPollTimer, alertSoundPlayed, overlayHidden,
                         closeBtnEventId, adminVars, detVars, variant, challenge>>

\* handleLogin() up to authLogin's fetch
handleLogin(username, password) ==
  /\ page = "index" /\ screen = "login-screen"
  /\ UNCHANGED <<storage, now, page, pc, screen, guardVars, adminVars, detVars,
                 variant, challenge>>
  /\ IF username = "" \/ password = ""
     THEN /\ authError' = ERR_EMPTY
          /\ out' = [Quiet EXCEPT !.op = "handleLogin", !.err = ERR_EMPTY]
          /\ UNCHANGED net
     ELSE /\ Len(net) < MaxInFlight
          /\ authError' = ""
          /\ net' = Append(net, Request("POST", "/auth/login", "", 0, "authLogin"))
          /\ out' = [Quiet EXCEPT !.op = "handleLogin", !.sent = <<net'[Len(net')]>>]

\* handleLogin() after authLogin; newPassword is what the user types into the prompt
LoginResponse(i, ans, newPassword) ==
  /\ page = "index"
  /\ i \in 1..Len(net) /\ net[i].cont = "authLogin"
  /\ IF variant = "pages" /\ ans.status = 409 /\ ans.challenge
     THEN IF newPassword = ""
          THEN showError("challenge", ERR_CANCELLED, ans, Remove(net, i))
          ELSE /\ net' = Append(Remove(net, i),
                                Request("POST", "/auth/complete-password", "", 0,
                                        "authCompletePassword"))
               /\ challenge' = TRUE
               /\ out' = [Quiet EXCEPT !.op = "challenge", !.dialog = "prompt",
                            !.status = ans.status,
                            !.sent = <<net'[Len(net')]>>]
               /\ UNCHANGED <<storage, now, page, pc, screen, authError, guardVars,
                              adminVars, detVars, variant>>
     ELSE IF ~ResOk(ans.status)
     THEN showError("loginFailed", LoginFailedMessage("Login failed", ans), ans,
                    Remove(net, i))
     ELSE routeAfterLogin("routeAfterLogin", ans.data.role, ans.status,
                          saveTokensFromLoginResponse(ans.data, now), Remove(net, i))

\* handleLogin() after authCompletePassword
CompletePasswordResponse(i, ans) ==
  /\ page = "index"
  /\ i \in 1..Len(net) /\ net[i].cont = "authCompletePassword"
  /\ IF ~ResOk(ans.status)
     THEN showError("completeFailed", LoginFailedMessage("Password change failed", ans),
                    ans, Remove(net, i))
     ELSE routeAfterLogin("routeAfterLogin", ans.data.role, ans.status,
                          saveTokensFromLoginResponse(ans.data, now), Remove(net, i))

\* the single-page client's setInterval(checkLiveAlerts, 3000) fires
SpaTimerTick ==
  /\ UNCHANGED <<adminVars, detVars, loginVars>>
  /\ page = "index" /\ alertPollTimer
  /\ LET sent == CheckLiveAlertsStart(dashboardHidden, net, storage, now) IN
     /\ Len(net) + Len(sent) <= MaxInFlight
     /\ net' = net \o sent
     /\ out' = [Quiet EXCEPT !.op = "tick", !.sent = sent]
  /\ UNCHANGED <<storage, now, page, pc, guardVars>>

\* answers to the single-page client's polls: no response, a refusal, no event,
\* one open event
SpaAnswers ==
  {NetworkError, [status |-> 401, body |-> ObjectBody],
   [status |-> 200, body |-> [kind |-> "array", items |-> <<>>]]}
  \cup {[status |-> 200, body |-> [kind |-> "array", items |-> <<e>>]] :
           e \in {g \in GuardEvents : g.eventId = 1 /\ g.status = S_OPEN}}

\* the single-page client's checkLiveAlerts after its await
SpaEventsResponse ==
  /\ page = "index"
  /\ \E i \in 1..Len(net), ans \in SpaAnswers : CheckLiveAlertsResume(i, ans)

NextLogin ==
  \/ LoginBootstrap
  \/ \E i \in 1..Len(net), status \in {0, 200, 401}, ok \in BOOLEAN, role \in Roles :
       LoginAuthMeResponse(i, status, ok, role)
  \/ \E username \in {"", "u"}, password \in {"", "p"} : handleLogin(username, password)
  \/ \E i \in 1..Len(net), ans \in LoginAnswers, newPassword \in {"", "np"} :
       LoginResponse(i, ans, newPassword)
  \/ \E i \in 1..Len(net), ans \in LoginAnswers : CompletePasswordResponse(i, ans)

SpecLogin == InitLogin /\ [][NextLogin]_vars

UnknownRole(role) == ToLowerCase(role) \notin {R_admin, R_guard, R_lifeguard}

\* C6: when routeAfterLogin is called with a role that, lower-cased, is none of
\* admin, guard and lifeguard (a missing role included), the login screen shows the
\* inline error, the page neither navigates nor shows a dashboard, and no request
\* and no poll timer is started
C6_UnknownRoleStaysOnLogin ==
  [][(out'.op = "routeAfterLogin" /\ UnknownRole(out'.role)) =>
       /\ authError' = ERR_NO_ROLE
       /\ page' = "index" /\ out'.nav = ""
       /\ screen' \notin {"manager-dashboard", "lifeguard-dashboard"}
       /\ (variant = "spa" => screen' = "login-screen")
       /\ out'.sent = <<>>
       /\ alertPollTimer' = alertPollTimer
       /\ eventsPollTimer' = eventsPollTimer]_vars

\* a login answered with a role outside the three known ones, in both clients
C6_Witness ==
  /\ out.op = "routeAfterLogin" /\ out.role = R_manager
  /\ storage.ls_id_token = "idt"
  /\ authError = ERR_NO_ROLE

LoginOps == {"routeAfterLogin", "loginFailed", "challenge", "completeFailed"}

\* C11: a login answered 409 NEW_PASSWORD_REQUIRED stores no tokens and routes
\* nowhere; tokens are stored and routing happens only in a step that received a
\* 2xx answer; a cancelled prompt or a failed complete-password leaves storage as
\* it was and does not navigate
C11_ChallengeStoresNothingUntilCompleted ==
  [][/\ (out'.op \in {"challenge", "completeFailed"} \/
         (out'.op \in LoginOps /\ out'.status = 409)) =>
           /\ storage' = storage
           /\ page' = page /\ screen' = screen /\ out'.nav = ""
           /\ alertPollTimer' = alertPollTimer
           /\ out'.op # "routeAfterLogin"
     /\ storage' # storage => (out'.op = "routeAfterLogin" /\ out'.status = 200)
    ]_vars

\* the login page after a challenge was taken up and complete-password failed:
\* nothing stored, still on the login screen
C11_Witness ==
  /\ variant = "pages" /\ challenge
  /\ out.op = "completeFailed"
  /\ storage = NoTokens
  /\ page = "index" /\ screen = "login-screen"

\* C12: a login whose answer is not 2xx (the 409 challenge apart) or whose fetch
\* failed shows an inline error, the server's message when there is one, stores
\* no tokens, does not navigate and sends no further request
C12_FailedLoginShowsErrorOnly ==
  [][/\ out'.op = "loginFailed" =>
           /\ authError' # "" /\ authError' = out'.err
           /\ (out'.message # "" => authError' = out'.message)
           /\ storage' = storage
           /\ page' = page /\ screen' = screen /\ out'.nav = ""
           /\ out'.sent = <<>>
           /\ Len(net') = Len(net) - 1
     /\ (out'.op \in LoginOps /\ out'.status \in {0, 401, 500}) => out'.op \in {"loginFailed", "completeFailed"}
    ]_vars

\* a rejected login with the server's message on the login screen
C12_Witness ==
  /\ out.op = "loginFailed" /\ out.status = 401
  /\ out.message = "Invalid credentials"
  /\ authError = "Invalid credentials"
  /\ page = "index"

-----------------------------------------------------------------------------
(* The two dashboards side by side *)

\* either dashboard page is loaded
SpecPages == (InitGuard \/ InitAdmin) /\ [][NextGuard \/ NextAdmin]_vars

\* C13: whatever answers POST /auth/logout (2xx, an error status, no response),
\* logout() ends with the four storage keys removed and the login page loading
C13_LogoutAlwaysClearsAndLeaves ==
  [][((\E i \in 1..Len(net) : net[i].cont = "authLogout") /\
       out'.op \in {"logoutDone", "logoutFailed"}) =>
         /\ storage'.ls_access_token = "" /\ storage'.ls_id_token = ""
         /\ storage'.ls_refresh_token = "" /\ storage'.ls_expires_at = 0
         /\ page' = "login" /\ out'.nav = "login.html"
         /\ net' = <<>>]_vars

\* a dashboard that was running with tokens stored has logged out
C13_Witness ==
  /\ out.op = "logoutDone"
  /\ storage = NoTokens
  /\ page = "login"
  /\ pc = "gone"

\* C14: a poll that fails (no response, 401/403, a body that is not JSON) ends
\* inside the poll function: the page stays, the poll timer is left as it was and
\* on the admin page eventsFetchInFlight is false again, so a tick on a visible
\* dashboard with no poll of its own pending issues a new GET /events
C14_FailedPollKeepsPolling ==
  [][/\ (out'.op = "events" /\ out'.err # "") =>
          /\ page' = page /\ pc' = pc /\ out'.nav = ""
          /\ alertPollTimer' = alertPollTimer
          /\ eventsPollTimer' = eventsPollTimer
          /\ eventsFetchInFlight' = FALSE
          /\ out'.sent = <<>>
     /\ (out'.op = "tick" /\ page = "lifeguard" /\ ~dashboardHidden) =>
          (Len(out'.sent) = 1 /\ out'.sent[1].method = "GET" /\ out'.sent[1].path = "/events")
     /\ (out'.op = "tick" /\ page = "admin" /\ ~docHidden /\ ~eventsFetchInFlight) =>
          (Len(out'.sent) = 1 /\ out'.sent[1].method = "GET" /\ out'.sent[1].path = "/events")
    ]_vars

\* the admin page after a poll was refused: the timer runs and the flag is down
C14_Witness ==
  /\ page = "admin" /\ pc = "ready"
  /\ out.op = "events" /\ out.err = "Unauthorized"
  /\ eventsPollTimer /\ ~eventsFetchInFlight

\* the single-page client or the login page with nothing stored
InitLoggedOut == InitLogin /\ storage = NoTokens

\* the pages whose poll timer can tick unseen: the admin page (document hidden)
\* and the single-page client (lifeguard dashboard hidden by showScreen); the
\* lifeguard page shows its dashboard before it starts the timer
SpecTicks ==
  (InitAdmin \/ InitLoggedOut) /\
  [][NextAdmin \/ NextLogin \/ SpaTimerTick \/ SpaEventsResponse]_vars

\* C15: a timer tick while the lifeguard dashboard element is hidden, or on the
\* admin page while the document is hidden, sends no request and changes nothing
C15_HiddenTickDoesNothing ==
  [][(out'.op = "tick" /\
       ((page \in {"lifeguard", "index"} /\ dashboardHidden) \/
        (page = "admin" /\ docHidden))) =>
         /\ out'.sent = <<>>
         /\ net' = net
         /\ UNCHANGED <<storage, page, pc, guardVars, adminVars>>]_vars

\* a tick that did nothing: the lifeguard timer runs behind a hidden dashboard
C15_Witness ==
  /\ page = "index" /\ alertPollTimer /\ dashboardHidden
  /\ out.op = "tick" /\ out.sent = <<>>

\* a tick of the admin timer while the document is hidden
C15_WitnessAdmin ==
  /\ page = "admin" /\ eventsPollTimer /\ docHidden
  /\ out.op = "tick" /\ out.sent = <<>>

\* C16: a DELETE /events is sent only by deleteEvent, only once the user has
\* accepted the confirmation for that eventId; with an empty eventId (no dialog)
\* or a declined confirmation nothing is sent and nothing changes
C16_DeleteOnlyAfterConfirm ==
  [][/\ \A k \in 1..Len(out'.sent) :
          out'.sent[k].method = "DELETE" =>
            /\ out'.op = "deleteEvent" /\ out'.dialog = "confirm" /\ out'.accepted
            /\ out'.eventId # 0 /\ out'.sent[k].eventId = out'.eventId
            /\ Len(out'.sent) = 1
     /\ (out'.op = "deleteEvent" /\ (out'.eventId = 0 \/ ~out'.accepted)) =>
          /\ out'.sent = <<>> /\ net' = net
          /\ (out'.eventId = 0 => out'.dialog = "")
          /\ UNCHANGED <<storage, page, pc, adminVars>>
    ]_vars

\* the user declined to delete event 1
C16_Witness ==
  /\ page = "admin"
  /\ out.op = "deleteEvent" /\ out.eventId = 1
  /\ out.dialog = "confirm" /\ ~out.accepted
  /\ out.sent = <<>>

\* the user accepted, and the DELETE for event 1 is on its way
C16_WitnessAccepted ==
  /\ out.op = "deleteEvent" /\ out.accepted
  /\ \E i \in 1..Len(net) : net[i].method = "DELETE" /\ net[i].eventId = 1

-----------------------------------------------------------------------------
(* Token expiry: saveTokensFromLoginResponse, then isTokenExpired as time passes *)

\* a login response is saved at the current time; expiresIn in seconds (0: none)
SaveTokens(expiresIn) ==
  /\ UNCHANGED <<page, net, pc, now, guardVars, adminVars, detVars, loginVars>>
  /\ storage' = saveTokensFromLoginResponse(
                  [accessToken |-> "acc", idToken |-> "idt", refreshToken |-> "ref",
                   expiresIn |-> expiresIn, role |-> R_guard], now)
  /\ out' = [Quiet EXCEPT !.op = "saveTokens"]

\* isTokenExpired() is called
IsTokenExpiredCall ==
  /\ UNCHANGED <<storage, page, net, pc, now, guardVars, adminVars, detVars, loginVars>>
  /\ out' = [Quiet EXCEPT !.op = "isTokenExpired", !.ret = isTokenExpired(storage, now)]

NextExpiry ==
  \/ \E expiresIn \in {0, 10, 20} : SaveTokens(expiresIn)
  \/ IsTokenExpiredCall
  \/ AdvanceClock

SpecExpiry == InitFetch /\ [][NextExpiry]_vars

\* C17: isTokenExpired() is true exactly when an expiry is stored (non-zero) and
\* now > expiry - 15000; so an expiry of now + 20000 gives false, one of
\* now + 10000 gives true, and no stored expiry gives false
C17_ExpiredExactlyInsideMargin ==
  out.op = "isTokenExpired" =>
    /\ out.ret <=> (storage.ls_expires_at # 0 /\ now > storage.ls_expires_at - 15000)
    /\ storage.ls_expires_at = now + 20000 => ~out.ret
    /\ storage.ls_expires_at = now + 10000 => out.ret
    /\ storage.ls_expires_at = 0 => ~out.ret

\* a token saved with 20 s to live, asked 5 s later: exactly on the margin, not
\* yet expired
C17_Witness ==
  /\ out.op = "isTokenExpired" /\ ~out.ret
  /\ now = 5000 /\ storage.ls_expires_at = 20000

\* the same token another 5 s later: inside the margin, expired
C17_WitnessExpired ==
  /\ out.op = "isTokenExpired" /\ out.ret
  /\ now = 10000 /\ storage.ls_expires_at = 20000

\* C18: getApiBearerToken prefers the id token on every dashboard: a request to
\* /events that carries a bearer token carries the stored id token whenever one
\* is stored
C18_IdTokenFirstEverywhere ==
  \A k \in 1..Len(out.sent) :
    (out.sent[k].path = "/events" /\ out.sent[k].auth # "" /\ storage.ls_id_token # "")
      => out.sent[k].auth = storage.ls_id_token

\* milliseconds since the epoch that an alert's created_at stands for; a malformed
\* value counts as the epoch
CreatedMs(e) ==
  IF e.created_at = "1970-01-01T00:00:01Z" THEN 1000
  ELSE IF e.created_at = "1970-01-01T00:00:02Z" THEN 2000
  ELSE 0

AlertsAreOpenWithImage ==
  \A k \in 1..Len(activeAlertsList) :
    /\ activeAlertsList[k].status \in {S_OPEN, S_open}
    /\ activeAlertsList[k].warningImageUrl # ""

\* C19 as stated: the alert list is strictly descending by created_at, and every
\* alert is open with an image
C19_AlertsStrictlyNewestFirst ==
  /\ \A k \in 1..(Len(activeAlertsList) - 1) :
       CreatedMs(activeAlertsList[k]) > CreatedMs(activeAlertsList[k + 1])
  /\ AlertsAreOpenWithImage

\* C19: the alert list is descending by created_at, equal times (two malformed
\* values among them) side by side, and every alert has a status that reads OPEN
\* in any case and a non-empty warningImageUrl
C19_AlertsNewestFirst ==
  /\ \A k \in 1..(Len(activeAlertsList) - 1) :
       CreatedMs(activeAlertsList[k]) >= CreatedMs(activeAlertsList[k + 1])
  /\ AlertsAreOpenWithImage

\* a poll answered oldest first, with an event that is not an alert: the list
\* holds the newer alert before the older
C19_Witness ==
  /\ out.op = "events" /\ out.err = ""
  /\ Len(out.body.items) = 2 /\ Len(activeAlertsList) = 2
  /\ CreatedMs(out.body.items[1]) < CreatedMs(out.body.items[2])
  /\ activeAlertsList[1] = out.body.items[2]
  /\ CreatedMs(activeAlertsList[2]) = 0

\* C20: on a list of n > 0 alerts nextAlert moves the index i to (i + 1) mod n and
\* prevAlert to (i - 1 + n) mod n, the list staying as it is; on an empty list
\* both change nothing
C20_NavigationWraps ==
  [][(out'.op \in {"nextAlert", "prevAlert"}) =>
       IF Len(activeAlertsList) = 0
       THEN UNCHANGED <<storage, page, pc, net, guardVars>>
       ELSE /\ out'.op = "nextAlert" =>
                 currentAlertIndex' = (currentAlertIndex + 1) % Len(activeAlertsList)
            /\ out'.op = "prevAlert" =>
                 currentAlertIndex' =
                   (currentAlertIndex - 1 + Len(activeAlertsList)) % Len(activeAlertsList)
            /\ UNCHANGED <<storage, page, pc, net, activeAlertsList, alertPollTimer>>
    ]_vars

\* prevAlert from the first of several alerts wrapped to the last
C20_Witness ==
  /\ out.op = "prevAlert"
  /\ Len(activeAlertsList) > 1
  /\ currentAlertIndex = Len(activeAlertsList) - 1
  /\ closeBtnEventId = activeAlertsList[Len(activeAlertsList)].eventId

\* nextAlert from the last of several alerts wrapped to the first
C20_WitnessNext ==
  /\ out.op = "nextAlert"
  /\ Len(activeAlertsList) > 1
  /\ currentAlertIndex = 0

\* ---------------------------------------------------------------
\* Error surfacing of mutating actions
\* ---------------------------------------------------------------

\* the PATCH / DELETE of a mutating action failed: network error, 401/403
\* or any other non-2xx status
MutationFailed(status) == status = 0 \/ status < 200 \/ status > 299

\* C21: every failed mutating action (the PATCH of dismissAlert, the DELETE
\* of deleteEvent) shows a blocking alert dialog, and a failed poll shows
\* nothing.  dismissAlert's catch only logs to the console, so the PATCH
\* half fails on the lifeguard page.
C21_FailedMutationAlerts ==
  /\ (out.op = "patch" /\ MutationFailed(out.status)) => out.dialog # ""
  /\ (out.op = "deleteDone" /\ MutationFailed(out.status)) => out.dialog # ""
  /\ (out.op = "events" /\ out.err # "") => out.dialog \in {"", "Event deleted"}

\* the halves of C21 the code does keep: a failed DELETE alerts, a failed
\* poll is silent
C21_FailedDeleteAlertsPollSilent ==
  /\ (out.op = "deleteDone" /\ MutationFailed(out.status)) => out.dialog = "Delete failed"
  /\ (out.op = "events" /\ out.err # "" /\ page = "lifeguard") => out.dialog = ""

\* ---------------------------------------------------------------
\* From the login page to the admin page
\* ---------------------------------------------------------------

\* window.location.href = "admin.html": the browser loads the admin document,
\* whose module-level state is fresh and whose DOMContentLoaded handler runs next
AdminPageLoad ==
  /\ page = "gone" /\ out.nav = "admin.html"
  /\ page' = "admin"
  /\ pc' = "load"
  /\ net' = <<>>
  /\ eventsPollTimer' = FALSE
  /\ eventsFetchInFlight' = FALSE
  /\ allEvents' = EmptyArray
  /\ docHidden' = FALSE
  /\ out' = [Quiet EXCEPT !.op = "load"]
  /\ UNCHANGED <<storage, now, guardVars, detVars, loginVars>>

\* the login page, and the admin page up to the end of its role gate
NextAdminLogin ==
  \/ NextLogin
  \/ AdminPageLoad
  \/ AdminBootstrap
  \/ \E i \in 1..Len(net), status \in {0, 200, 401}, ok \in BOOLEAN, role \in Roles :
       AdminAuthMeResponse(i, status, ok, role)

SpecAdminLogin == InitLoggedOut /\ [][NextAdminLogin]_vars

OneGetEvents(sent) ==
  Len(sent) = 1 /\ sent[1].method = "GET" /\ sent[1].path = "/events"

\* C22 as stated: a successful login whose role is admin routes to the manager
\* view and the next request issued is the one GET /events, nothing in between.
\* The page-per-role client navigates to admin.html, whose load first issues
\* GET /auth/me.
C22_AdminLoginPollsAtOnce ==
  /\ (out.op = "routeAfterLogin" /\ ToLowerCase(out.role) = R_admin /\ variant = "spa")
       => OneGetEvents(out.sent)
  /\ (variant = "pages" /\ page = "admin" /\ out.op = "bootstrap" /\ out.sent # <<>>)
       => OneGetEvents(out.sent)

\* C22, amended: in the single-page client the routing step shows the manager
\* dashboard and issues exactly one GET /events; in the page-per-role client it
\* navigates to admin.html and sends nothing, the admin page's load issues at
\* most GET /auth/me, and the step that passes the role gate (200, admin) issues
\* exactly one GET /events
C22_AdminLoginGatesThenPollsOnce ==
  [][/\ (out'.op = "routeAfterLogin" /\ ToLowerCase(out'.role) = R_admin) =>
          IF variant = "spa"
          THEN screen' = "manager-dashboard" /\ OneGetEvents(out'.sent)
          ELSE page' = "gone" /\ out'.nav = "admin.html" /\ out'.sent = <<>>
     /\ (page' = "admin" /\ out'.op \in {"load", "bootstrap"}) =>
          \A k \in 1..Len(out'.sent) : out'.sent[k].path = "/auth/me"
     /\ (page = "admin" /\ out'.op = "gate" /\ pc' = "ready") =>
          out'.status = 200 /\ OneGetEvents(out'.sent)]_vars

C22_Witness ==
  /\ variant = "pages" /\ page = "admin"
  /\ out.op = "gate" /\ pc = "ready"
  /\ OneGetEvents(out.sent)

-----------------------------------------------------------------------------
(* Auth handler (server/index.mjs, the token-in-body handler) *)

\* String(x).trim() on a string held as a sequence of characters
RECURSIVE TrimStart(_)
TrimStart(s) == IF s # <<>> /\ s[1] = " " THEN TrimStart(Tail(s)) ELSE s
RECURSIVE TrimEnd(_)
TrimEnd(s) ==
  IF s # <<>> /\ s[Len(s)] = " " THEN TrimEnd(SubSeq(s, 1, Len(s) - 1)) ELSE s
Trim(s) == TrimEnd(TrimStart(s))

\* path.endsWith(suffix), a path held as its sequence of segments
EndsWith(path, suffix) ==
  /\ Len(path) >= Len(suffix)
  /\ SubSeq(path, Len(path) - Len(suffix) + 1, Len(path)) = suffix

G_Admins == <<"A","d","m","i","n","s">>
G_lifeguards == <<"l","i","f","e","g","u","a","r","d","s">>
G_staff == <<"s","t","a","f","f">>
R_unknown == <<"u","n","k","n","o","w","n">>

\* the values of payload["cognito:groups"]: an array, or anything else (absent)
GroupsClaim(items) == [isArray |-> TRUE, items |-> items]
NoGroupsClaim == [isArray |-> FALSE, items |-> <<>>]
GroupLists == {<<>>, <<G_Admins>>, <<G_lifeguards>>, <<G_staff>>, <<G_staff, R_guard>>}

\* a token: its decoded payload, or one decodeJwtPayload returns null for
Jwt(claim) == [decodes |-> TRUE, present |-> TRUE, groups |-> claim]
OpaqueToken == [decodes |-> FALSE, present |-> TRUE, groups |-> NoGroupsClaim]
NoToken == [decodes |-> FALSE, present |-> FALSE, groups |-> NoGroupsClaim]

decodeJwtPayload(token) ==
  IF token.decodes THEN [isNull |-> FALSE, groups |-> token.groups]
  ELSE [isNull |-> TRUE, groups |-> NoGroupsClaim]

\* Array.isArray(payload["cognito:groups"]) ? payload["cognito:groups"] : []
PayloadGroups(payload) ==
  IF ~payload.isNull /\ payload.groups.isArray THEN payload.groups.items ELSE <<>>

getRoleFromGroups(groups) ==
  LET g == {ToLowerCase(groups[k]) : k \in 1..Len(groups)} IN
  IF <<"a","d","m","i","n","s">> \in g \/ R_admin \in g THEN R_admin
  ELSE IF G_lifeguards \in g \/ R_lifeguard \in g \/ R_guard \in g THEN R_guard
  ELSE R_unknown

\* the Authorization header: absent, or a scheme and a token
NoAuthorization == [scheme |-> "", token |-> NoToken]
Authorizations ==
  {NoAuthorization}
  \cup {[scheme |-> sch, token |-> t] :
          sch \in {"Bearer", "bearer", "Basic"},
          t \in {OpaqueToken, Jwt(GroupsClaim(<<G_Admins>>)), Jwt(NoGroupsClaim)}}

\* getBearerToken: /^Bearer\s+(.+)$/i
getBearerToken(authorization) ==
  IF authorization.scheme \in {"Bearer", "bearer"} THEN authorization.token ELSE NoToken

json(statusCode, bodyObj) == [statusCode |-> statusCode, body |-> bodyObj]

\* what cognito.send(InitiateAuthCommand) does: resolves with an
\* AuthenticationResult, resolves with a challenge and no result, or rejects
AuthResult(access, id, refresh, expiresIn) ==
  [kind |-> "result", AccessToken |-> access, IdToken |-> id, RefreshToken |-> refresh,
   ExpiresIn |-> expiresIn, ChallengeName |-> "", Session |-> "", errName |-> ""]
Challenge(name, session) ==
  [kind |-> "challenge", AccessToken |-> "", IdToken |-> NoToken, RefreshToken |-> "",
   ExpiresIn |-> 0, ChallengeName |-> name, Session |-> session, errName |-> ""]
Rejects(name) ==
  [kind |-> "rejects", AccessToken |-> "", IdToken |-> NoToken, RefreshToken |-> "",
   ExpiresIn |-> 0, ChallengeName |-> "", Session |-> "", errName |-> name]
NotCalled ==
  [kind |-> "", AccessToken |-> "", IdToken |-> NoToken, RefreshToken |-> "",
   ExpiresIn |-> 0, ChallengeName |-> "", Session |-> "", errName |-> ""]

IdpOutcomes ==
  {AuthResult(a, id, r, e) :
     a \in {"", "acc"}, id \in {NoToken, Jwt(GroupsClaim(<<G_Admins>>)), Jwt(NoGroupsClaim)},
     r \in {"", "ref"}, e \in {0, 900}}
  \cup {Challenge("NEW_PASSWORD_REQUIRED", "sess"), Rejects("NotAuthorizedException"),
        Rejects("")}

Credentials(body) == Trim(body.username) # <<>> /\ Trim(body.password) # <<>>

routeLogin(event, idp) ==
  IF ~Credentials(event.body)
  THEN json(400, [message |-> "username and password are required"])
  ELSE IF idp.kind = "rejects"
  THEN json(401, [message |-> "Invalid credentials",
                  detail |-> IF idp.errName = "" THEN "AuthError" ELSE idp.errName])
  ELSE IF idp.AccessToken = "" \/ ~idp.IdToken.present
  THEN json(401, [message |-> "Login failed (no tokens returned)"])
  ELSE json(200, [ok |-> TRUE,
                  role |-> getRoleFromGroups(PayloadGroups(decodeJwtPayload(idp.IdToken))),
                  username |-> Trim(event.body.username),
                  groups |-> PayloadGroups(decodeJwtPayload(idp.IdToken)),
                  expiresIn |-> IF idp.ExpiresIn = 0 THEN 3600 ELSE idp.ExpiresIn,
                  accessToken |-> idp.AccessToken,
                  idToken |-> idp.IdToken,
                  refreshToken |-> idp.RefreshToken])

routeMe(event) ==
  LET token == getBearerToken(event.authorization) IN
  IF ~token.present THEN json(401, [ok |-> FALSE, message |-> "Missing Bearer token"])
  ELSE IF decodeJwtPayload(token).isNull
  THEN json(401, [ok |-> FALSE, message |-> "Invalid token"])
  ELSE json(200, [ok |-> TRUE,
                  role |-> getRoleFromGroups(PayloadGroups(decodeJwtPayload(token))),
                  groups |-> PayloadGroups(decodeJwtPayload(token))])

routeLogout(event) == json(200, [ok |-> TRUE])

P_login == <<"auth", "login">>
P_me == <<"auth", "me">>
P_logout == <<"auth", "logout">>
P_complete == <<"auth", "complete-password">>

\* the routes of the handler, in its order
Route(method, path) ==
  IF method = "OPTIONS" THEN "preflight"
  ELSE IF method = "POST" /\ EndsWith(path, P_login) THEN "login"
  ELSE IF method = "GET" /\ EndsWith(path, P_me) THEN "me"
  ELSE IF method = "POST" /\ EndsWith(path, P_logout) THEN "logout"
  ELSE "none"

AuthHandler(event, idp) ==
  IF Route(event.method, event.path) = "preflight" THEN json(204, [empty |-> TRUE])
  ELSE IF Route(event.method, event.path) = "login" THEN routeLogin(event, idp)
  ELSE IF Route(event.method, event.path) = "me" THEN routeMe(event)
  ELSE IF Route(event.method, event.path) = "logout" THEN routeLogout(event)
  ELSE json(404, [message |-> "Not found", path |-> event.path, method |-> event.method])

Usernames == {<<>>, <<" ">>, <<"u">>}
Passwords == {<<>>, <<"p">>, <<"p", " ">>}
LoginBodies == {[username |-> u, password |-> pw] : u \in Usernames, pw \in Passwords}
Paths == {P_login, <<"prod">> \o P_login, P_me, P_logout, P_complete, P_login \o <<"x">>}
Events ==
  [method : {"GET", "POST", "OPTIONS"}, path : Paths, body : LoginBodies,
   authorization : Authorizations]

InitServer ==
  /\ IdleGuard /\ IdleAdmin /\ IdleDetector /\ IdleLogin
  /\ storage = NoTokens
  /\ now = 0
  /\ page = "lambda"
  /\ net = <<>>
  /\ pc = "idle"
  /\ out = Quiet

\* one invocation of the handler; the identity provider is consulted only by a
\* login that carries credentials
handler(event, idp) ==
  /\ page = "lambda" /\ pc = "idle"
  /\ pc' = "answered"
  /\ (idp = NotCalled) =
       ~(Route(event.method, event.path) = "login" /\ Credentials(event.body))
  /\ out' = [Quiet EXCEPT !.op = "handler", !.event = event, !.idp = idp,
               !.res = AuthHandler(event, idp)]
  /\ UNCHANGED <<storage, now, page, net, guardVars, adminVars, detVars, loginVars>>

\* the response has been returned; the runtime waits for the next event (the
\* handler keeps no state between invocations)
HandlerReturned ==
  /\ page = "lambda" /\ pc = "answered"
  /\ pc' = "idle"
  /\ out' = Quiet
  /\ UNCHANGED <<storage, now, page, net, guardVars, adminVars, detVars, loginVars>>

NextServer ==
  \/ \E event \in Events, idp \in IdpOutcomes \cup {NotCalled} : handler(event, idp)
  \/ HandlerReturned

SpecServer == InitServer /\ [][NextServer]_vars

\* C23: POST /auth/login is answered with exactly one of 200 carrying role and
\* tokens, 409 carrying challenge NEW_PASSWORD_REQUIRED with session and username
\* when the identity provider demands a new password, or a 4xx with a message; and
\* POST /auth/complete-password is served (not 404).  The handler has no branch
\* for the challenge and no complete-password route.
C23_LoginContract ==
  (out.op = "handler" /\ out.event.method = "POST") =>
    LET r == out.res IN
    /\ out.event.path \in {P_login, <<"prod">> \o P_login} =>
         /\ \/ /\ r.statusCode = 200
               /\ {"role", "accessToken", "idToken"} \subseteq DOMAIN r.body
            \/ /\ r.statusCode = 409
               /\ {"challenge", "session", "username"} \subseteq DOMAIN r.body
            \/ /\ r.statusCode \in (400..499) \ {409}
               /\ "message" \in DOMAIN r.body
         /\ (out.idp.ChallengeName = "NEW_PASSWORD_REQUIRED") = (r.statusCode = 409)
    /\ out.event.path = P_complete => r.statusCode # 404

-----------------------------------------------------------------------------
(* Admin page: single-flight fetchEvents *)

PendingFetches == {i \in 1..Len(net) : net[i].path = "/events" /\ net[i].method = "GET"}

\* C24: a fetchEvents invoked while an earlier call's fetch is unresolved (from the
\* timer, or from deleteEvent) sends nothing and leaves allEvents, the in-flight
\* flag and the pending requests as they were; so at most one admin GET /events is
\* in flight at any time
C24_FetchEventsSingleFlight ==
  [][/\ (eventsFetchInFlight /\ out'.op = "tick") =>
          /\ out'.sent = <<>> /\ net' = net
          /\ allEvents' = allEvents /\ eventsFetchInFlight'
     /\ (eventsFetchInFlight /\ out'.op = "deleteDone") =>
          /\ out'.sent = <<>>
          /\ allEvents' = allEvents /\ eventsFetchInFlight'
     /\ Cardinality(PendingFetches') <= 1]_vars

C24_Witness ==
  /\ out.op = "tick" /\ out.sent = <<>> /\ ~docHidden
  /\ eventsFetchInFlight
  /\ Cardinality(PendingFetches) = 1

-----------------------------------------------------------------------------
(* Lifeguard page: order of renders *)

\* the same handler, with the history of which pending poll was answered
GuardEventsResponseInOrder ==
  \E i \in 1..Len(net), ans \in GuardAnswers :
     CheckLiveAlertsAnswered(i, ans, OldestPoll(net, i))

\* timer ticks, dismissals with their re-polls, and responses in any order
NextOrder ==
  \/ GuardBootstrap
  \/ \E i \in 1..Len(net), status \in {0, 200, 401}, ok \in BOOLEAN, role \in Roles :
       GuardAuthMeResponse(i, status, ok, role)
  \/ GuardTimerTick
  \/ GuardEventsResponseInOrder
  \/ dismissAlert
  \/ GuardPatchResponse

SpecOrder == InitGuard /\ [][NextOrder]_vars

\* C25: renders are never out of order: the response to a poll is never rendered
\* after the response to a poll issued later than it, so the list shown is derived
\* from the most recently issued GET /events among those answered.  Stated on two
\* consecutive steps: when a response has overtaken an older pending poll, the
\* next step does not render the response to that older poll.  checkLiveAlerts
\* has no in-flight guard and no request counter, so it does.
C25_NoStaleRender ==
  [][~(/\ out.op = "events" /\ ~out.oldest
       /\ out'.op = "events" /\ out'.oldest /\ out'.err = ""
       /\ Len(net') < Len(net))]_vars

-----------------------------------------------------------------------------
(* Poll timers *)

\* C26: at most one poll timer is active per dashboard: a step that calls
\* setInterval for the lifeguard dashboard does so when no interval is live (the
\* admin page's startEventsPolling clears the old one first).  The single-page
\* client's routeAfterLogin assigns alertPollTimer = setInterval(...) without
\* clearing the interval the handle already names.
C26_TimerStartedOnlyWhenNoneActive ==
  [][(out'.op = "routeAfterLogin" /\ screen' = "lifeguard-dashboard" /\ alertPollTimer')
       => ~alertPollTimer]_vars

-----------------------------------------------------------------------------
(* Admin page: the role gate *)

\* C27: the admin page shows the manager dashboard and starts event polling only
\* in the step in which GET /auth/me has returned 200 ok with role admin; with a
\* missing or expired id token (no /auth/me at all), a non-2xx or failed /auth/me,
\* ok false or any other role, it redirects to the login page and no GET /events
\* is issued
C27_AdminGate ==
  [][(page = "admin" /\ pc \in {"load", "gate"}) =>
       IF out'.op = "gate" /\ out'.status = 200 /\ out'.ret
          /\ out'.role \in {R_admin, R_Admin}
       THEN /\ page' = "admin" /\ pc' = "ready" /\ eventsPollTimer'
            /\ Len(out'.sent) = 1 /\ out'.sent[1].path = "/events"
       ELSE /\ ~eventsPollTimer' /\ pc' # "ready"
            /\ \A k \in 1..Len(net') : net'[k].path # "/events"
            /\ out'.op \in {"bootstrap", "gate"} =>
                 \/ /\ out'.op = "bootstrap" /\ pc' = "gate" /\ storage.ls_id_token # ""
                    /\ ~isTokenExpired(storage, now)
                    /\ Len(out'.sent) = 1 /\ out'.sent[1].path = "/auth/me"
                 \/ page' = "login" /\ out'.nav = "login.html" /\ net' = <<>>]_vars

C27_Witness ==
  /\ page = "admin" /\ pc = "ready" /\ eventsPollTimer
  /\ out.op = "gate" /\ out.role = R_Admin /\ out.ret
  /\ Len(out.sent) = 1

\* a refused gate: /auth/me answered 200 ok for a lifeguard
C27_WitnessRefused ==
  /\ page = "login" /\ out.op = "gate" /\ out.status = 200 /\ out.ret
  /\ out.role = R_guard /\ ~eventsPollTimer

-----------------------------------------------------------------------------
(* The stored credentials, over the three pages *)

\* each page under its own handlers
NextSession ==
  \/ page = "lifeguard" /\ NextGuard
  \/ page = "admin" /\ NextAdmin
  \/ page = "index" /\ NextLogin

SpecSession == (InitGuard \/ InitAdmin \/ InitLogin) /\ [][NextSession]_vars

\* C28: the four stored credential keys change only in a step that handles a 2xx
\* login or complete-password response (written) or that completes logout
\* (removed); every other step -- a poll, its response whatever its status, a
\* dismiss, a delete, alert navigation, the role gate, role routing -- leaves
\* them as they were
C28_CredentialsFrame ==
  [][storage' # storage =>
       \/ /\ page = "index" /\ out'.op = "routeAfterLogin"
          /\ out'.status >= 200 /\ out'.status <= 299
       \/ /\ page \in {"lifeguard", "admin"} /\ out'.op = "logoutDone"
          /\ storage' = NoTokens]_vars

\* a 401 answer to a poll has been handled and the credentials are still stored
C28_Witness ==
  /\ out.op = "events" /\ out.status = 401 /\ out.err = "Unauthorized"
  /\ storage.ls_id_token # "" /\ storage.ls_access_token # ""

\* a login response has written the credentials
C28_WitnessWritten ==
  /\ out.op = "routeAfterLogin" /\ out.status = 200
  /\ storage.ls_id_token # ""

-----------------------------------------------------------------------------
(* Admin page: the refresh of deleteEvent *)

\* C29: whenever the DELETE of deleteEvent succeeds, a GET /events is issued after
\* the DELETE response, and "Event deleted" is reported only in the step that
\* handles that GET's response.  When a timer poll is in flight as the DELETE
\* returns, fetchEvents returns at once: nothing is issued and the report is
\* made in the same step.
C29_DeleteRefreshesBeforeReporting ==
  /\ (out.op = "deleteDone" /\ out.status >= 200 /\ out.status <= 299) =>
       /\ Len(out.sent) = 1 /\ out.sent[1].path = "/events"
       /\ out.dialog = ""
  /\ out.dialog = "Event deleted" => out.op = "events"

-----------------------------------------------------------------------------
(* Lifeguard page: a failed poll *)

\* C30: a lifeguard poll that fails (the fetch rejects, the answer is 401 or 403,
\* or the body does not parse) leaves activeAlertsList, currentAlertIndex, the
\* sound latch and the overlay's visibility exactly as they were, so alerts shown
\* before stay displayed until a later poll succeeds
C30_FailedPollKeepsAlerts ==
  [][(/\ page = "lifeguard" /\ out'.op = "events"
      /\ \/ out'.status \in {0, 401, 403}
         \/ out'.body.kind = "unparsable") =>
       /\ activeAlertsList' = activeAlertsList
       /\ currentAlertIndex' = currentAlertIndex
       /\ alertSoundPlayed' = alertSoundPlayed
       /\ overlayHidden' = overlayHidden
       /\ closeBtnEventId' = closeBtnEventId]_vars

C30_Witness ==
  /\ page = "lifeguard" /\ out.op = "events" /\ out.status = 403
  /\ Len(activeAlertsList) > 0 /\ ~overlayHidden /\ alertSoundPlayed
  /\ out.prevLen = Len(activeAlertsList)

====
